---- MODULE Spec2Model ----
(***************************************************************************)
(* A model of src/src/main.py: the Product and Category classes, the       *)
(* class-level counters Category.category_count / Category.product_count,  *)
(* the guarded price setter, the new_product factory, CategoryIterator,    *)
(* Order and load_data_from_json.                                          *)
(*                                                                         *)
(* Objects live in two heaps, `products` and `categories`; an object is    *)
(* named by its index (its identity), so `product in self._products` is    *)
(* membership of an index.  A category's `products` are the items of its   *)
(* _products list, and `list_id` says which list object that is.  `last`   *)
(* is the most recent call as its caller sees it: the arguments, and the   *)
(* value returned or the exception raised.                                 *)
(* The program is single-threaded: a call runs to its end in one step, and *)
(* the caller takes its result (Proceed) before it makes the next call.    *)
(* `lists` are the list objects a caller owns, `iterators` the             *)
(* CategoryIterator objects and `orders` the Order objects.                *)
(***************************************************************************)
EXTENDS Integers, Sequences, FiniteSets, TLC

VARIABLES products, categories, category_count, product_count, last,
          lists, iterators, orders

vars == <<products, categories, category_count, product_count, last,
          lists, iterators, orders>>

(***************************************************************************)
(* Bounds of the model.                                                    *)
(***************************************************************************)
\* At most this many Product objects are constructed.
MaxProducts == 2
\* The heap holds at most this many Product plus Category objects.
MaxObjects == 4
\* new_product merges only while the merged quantity stays within MaxQty.
MaxQty == 2

(***************************************************************************)
(* Python values handed to the constructors: a type tag, the characters    *)
(* of a str, the numeric value of an int or a float.                       *)
(***************************************************************************)
PyStr(s) == [type |-> "str", s |-> s, n |-> 0]
PyInt(n) == [type |-> "int", s |-> <<>>, n |-> n]
PyFloat(n) == [type |-> "float", s |-> <<>>, n |-> n]
PyNone == [type |-> "NoneType", s |-> <<>>, n |-> 0]
\* A key that the product_data dict does not hold.
Missing == [type |-> "missing", s |-> <<>>, n |-> 0]

\* isinstance(v, str)
IsStr(v) == v.type = "str"
\* isinstance(v, int)
IsInt(v) == v.type = "int"
\* isinstance(v, (int, float))
IsNumber(v) == v.type \in {"int", "float"}

RECURSIVE LStrip(_)
LStrip(s) == IF s # <<>> /\ Head(s) = " " THEN LStrip(Tail(s)) ELSE s

RECURSIVE RStrip(_)
RStrip(s) ==
    IF s # <<>> /\ s[Len(s)] = " " THEN RStrip(SubSeq(s, 1, Len(s) - 1)) ELSE s

\* str.strip(): the string without its leading and trailing whitespace.
Strip(s) == RStrip(LStrip(s))

\* float(price) of an int or a float: the same number, held as a float.
Float(v) == v.n

\* str.lower() of an answer typed at the prompt.
Lower(s) == IF s = "Y" THEN "y" ELSE IF s = "N" THEN "n" ELSE s

\* What an argument or a list element is when it is no Product at all.
NotAProduct == 0

\* The elements of a sequence.
Range(s) == {s[i] : i \in 1..Len(s)}

(***************************************************************************)
(* What a call did.  ret is "None", "True", "object" (obj is the index of  *)
(* the object returned), "value" (value is the number or the list          *)
(* returned) or "raise" (exc names the exception class).  msg is the       *)
(* diagnostic printed or the message raised; asked / answer are the use    *)
(* made of input().                                                        *)
(***************************************************************************)
Outcome(op, obj, args, ret, exc, msg) ==
    [op |-> op, obj |-> obj, args |-> args, ret |-> ret, exc |-> exc,
     msg |-> msg, asked |-> FALSE, answer |-> "", value |-> 0]

Returned(op, obj, args, ret) == Outcome(op, obj, args, ret, "", "")

Raised(op, args, exc, msg) == Outcome(op, 0, args, "raise", exc, msg)

\* No call is under way and no result is pending.
Idle == Returned("idle", 0, <<>>, "None")

(***************************************************************************)
(* Product                                                                 *)
(***************************************************************************)
\* The checks of Product.__init__ with line 56 moved before line 52.
ProductCheckQuantityFirst(name, description, price, quantity) ==
    IF ~IsStr(name) \/ Strip(name.s) = <<>> THEN <<"ValueError", "name">>
    ELSE IF ~IsStr(description) THEN <<"ValueError", "description">>
    ELSE IF ~IsNumber(price) THEN <<"ValueError", "price type">>
    ELSE IF ~IsInt(quantity) THEN <<"ValueError", "quantity type">>
    ELSE IF quantity.n <= 0 THEN <<"ZeroQuantityError", "zero quantity">>
    ELSE IF price.n < 0 THEN <<"ValueError", "negative price">>
    ELSE <<"", "">>

\* Product.__init__: the checks in source order; <<"", "">> when all pass.
ProductCheck(name, description, price, quantity) ==
    IF ~IsStr(name) \/ Strip(name.s) = <<>> THEN <<"ValueError", "name">>
    ELSE IF ~IsStr(description) THEN <<"ValueError", "description">>
    ELSE IF ~IsNumber(price) THEN <<"ValueError", "price type">>
    ELSE IF ~IsInt(quantity) THEN <<"ValueError", "quantity type">>
    ELSE IF price.n < 0 THEN <<"ValueError", "negative price">>
    ELSE IF quantity.n <= 0 THEN <<"ZeroQuantityError", "zero quantity">>
    ELSE <<"", "">>

\* The attribute that `self.__price` names inside class Product (the
\* compiler mangles the identifier).
PrivatePrice == "_Product__price"

\* The string literal handed to hasattr at line 74 (a string is not mangled).
HasAttrName == "__price"

\* hasattr(obj, name)
HasAttr(obj, name) == name \in obj.attrs

\* The instance a successful Product.__init__ leaves; cls is type(self).
ProductObject(name, description, price, quantity) ==
    [cls |-> "Product", name |-> Strip(name.s), description |-> description.s,
     price |-> Float(price), quantity |-> quantity.n,
     attrs |-> {"name", "description", PrivatePrice, "quantity"}]

\* Product(name, description, price, quantity)
ProductInit(name, description, price, quantity) ==
    LET chk == ProductCheck(name, description, price, quantity)
        args == <<name, description, price, quantity>>
    IN /\ last.op = "idle"
       /\ IF chk[1] # ""
          THEN /\ last' = Raised("Product", args, chk[1], chk[2])
               /\ UNCHANGED products
          ELSE /\ Len(products) < MaxProducts
               /\ Len(products) + Len(categories) < MaxObjects
               /\ products' =
                     Append(products, ProductObject(name, description, price, quantity))
               /\ last' = Returned("Product", Len(products) + 1, args, "object")
       /\ UNCHANGED <<categories, category_count, product_count>>
       /\ UNCHANGED <<lists, iterators, orders>>

\* The price setter with `< 0` where line 70 has `<= 0`.
PriceSetAcceptsZero(obj, new_price, answer) ==
    IF new_price < 0
    THEN [price |-> obj.price, asked |-> FALSE, msg |-> "rejected"]
    ELSE [price |-> new_price, asked |-> FALSE, msg |-> ""]

\* The price setter without the guard of lines 70-72.
PriceSetUnguarded(obj, new_price, answer) ==
    [price |-> new_price, asked |-> FALSE, msg |-> ""]

\* The body of the price setter on instance obj, with `answer` what input()
\* returns if it is called: the price stored afterwards, whether input() was
\* called, and the diagnostic printed.
PriceSet(obj, new_price, answer) ==
    IF new_price <= 0
    THEN [price |-> obj.price, asked |-> FALSE, msg |-> "rejected"]
    ELSE IF HasAttr(obj, HasAttrName) /\ new_price < obj.price
    THEN IF Lower(answer) # "y"
         THEN [price |-> obj.price, asked |-> TRUE, msg |-> "cancelled"]
         ELSE [price |-> new_price, asked |-> TRUE, msg |-> ""]
    ELSE [price |-> new_price, asked |-> FALSE, msg |-> ""]

\* What input() can return in a call: one of `answers` when the call reaches
\* input(), nothing when it does not.
Typed(asked, answers) == IF asked THEN answers ELSE {""}

\* product.price = new_price
SetPrice(p, new_price, answer) ==
    LET r == PriceSet(products[p], new_price, answer)
    IN /\ last.op = "idle"
       /\ p \in 1..Len(products)
       /\ products' = [products EXCEPT ![p].price = r.price]
       /\ last' = [Outcome("price.setter", p, <<new_price>>, "None", "", r.msg)
                      EXCEPT !.asked = r.asked,
                             !.answer = IF r.asked THEN answer ELSE ""]
       /\ UNCHANGED <<categories, category_count, product_count>>
       /\ UNCHANGED <<lists, iterators, orders>>

\* The merge's scan taken from the end of the list.
RECURSIVE LastMatch(_, _, _)
LastMatch(items, name, i) ==
    IF items = <<>> THEN 0
    ELSE IF products[items[Len(items)]].name = name THEN Len(items)
    ELSE LastMatch(SubSeq(items, 1, Len(items) - 1), name, i)

\* The loop of lines 120-121 from position i on: the position of the first
\* product of the list with this name, 0 when the loop ends without one.
RECURSIVE FirstMatch(_, _, _)
FirstMatch(items, name, i) ==
    IF i > Len(items) THEN 0
    ELSE IF products[items[i]].name = name THEN i
    ELSE FirstMatch(items, name, i + 1)

\* Lines 122-124: the existing product after the new one is merged into it;
\* the price goes through the setter.
Merged(existing, new, answer) ==
    [existing EXCEPT !.quantity = existing.quantity + new.quantity,
                     !.price = IF existing.price < new.price
                               THEN PriceSet(existing, new.price, answer).price
                               ELSE existing.price]

\* Whether the merge called input(): only its setter call can.
MergeAsks(existing, new, answer) ==
    existing.price < new.price /\ PriceSet(existing, new.price, answer).asked

\* Whether new_product(data, plist) reaches input().
NewProductAsks(data, plist) ==
    LET new == ProductObject(data.name, data.description, data.price, data.quantity)
        m == FirstMatch(plist.items, new.name, 1)
    IN /\ \A f \in {"name", "description", "price", "quantity"} : data[f] # Missing
       /\ ProductCheck(data.name, data.description, data.price, data.quantity)[1] = ""
       /\ plist.type = "list" /\ m # 0
       /\ MergeAsks(products[plist.items[m]], new, "")

\* Product.new_product(product_data, products_list); plist is a list of
\* Products or None.
NewProduct(data, plist, answer) ==
    LET args == <<data, plist>>
        chk == ProductCheck(data.name, data.description, data.price, data.quantity)
        new == ProductObject(data.name, data.description, data.price, data.quantity)
        m == FirstMatch(plist.items, new.name, 1)
    IN /\ last.op = "idle"
       /\ IF \E f \in {"name", "description", "price", "quantity"} : data[f] = Missing
          THEN /\ last' = Raised("new_product", args, "ValueError", "missing fields")
               /\ UNCHANGED products
          ELSE IF chk[1] # ""
          THEN /\ last' = Raised("new_product", args, chk[1], chk[2])
               /\ UNCHANGED products
          ELSE IF plist.type = "list" /\ plist.items # <<>> /\ m # 0
          THEN LET e == plist.items[m]
               IN /\ products[e].quantity + new.quantity <= MaxQty
                  /\ products' =
                        [products EXCEPT ![e] = Merged(products[e], new, answer)]
                  /\ last' = [Returned("new_product", e, args, "object")
                                EXCEPT !.asked = MergeAsks(products[e], new, answer),
                                       !.answer = IF MergeAsks(products[e], new, answer)
                                                  THEN answer ELSE ""]
          ELSE /\ Len(products) < MaxProducts
               /\ Len(products) + Len(categories) < MaxObjects
               /\ products' = Append(products, new)
               /\ last' = Returned("new_product", Len(products) + 1, args, "object")
       /\ UNCHANGED <<categories, category_count, product_count>>
       /\ UNCHANGED <<lists, iterators, orders>>

(***************************************************************************)
(* Category                                                                *)
(***************************************************************************)
\* A products argument: a list of items (Product indices or NotAProduct),
\* or None.  id tells which list object it is: the index in `lists` of a
\* list the caller keeps, 0 for a list nobody else refers to.
PyList(items) == [type |-> "list", items |-> items, id |-> 0]
NoList == [type |-> "NoneType", items |-> <<>>, id |-> 0]

\* The caller's list object l as an argument.
ListObject(l) == [type |-> "list", items |-> lists[l], id |-> l]

\* The argument list itself, where line 182 takes a copy.
ListShared(prods) == prods

\* products.copy(): a new list object with the same items.
ListCopy(prods) == [prods EXCEPT !.id = 0]

\* isinstance(x, Product)
IsProduct(x) == x \in 1..Len(products)

\* The checks of Category.__init__ without the test of line 176.
CategoryCheckNoElementTest(name, description, prods) ==
    IF ~IsStr(name) \/ Strip(name.s) = <<>> THEN <<"ValueError", "name">>
    ELSE IF ~IsStr(description) \/ Strip(description.s) = <<>>
        THEN <<"ValueError", "description">>
    ELSE IF prods.type # "list" THEN <<"ValueError", "products type">>
    ELSE <<"", "">>

\* Category.__init__: the checks in source order.
CategoryCheck(name, description, prods) ==
    IF ~IsStr(name) \/ Strip(name.s) = <<>> THEN <<"ValueError", "name">>
    ELSE IF ~IsStr(description) \/ Strip(description.s) = <<>>
        THEN <<"ValueError", "description">>
    ELSE IF prods.type # "list" THEN <<"ValueError", "products type">>
    ELSE IF ~(\A i \in 1..Len(prods.items) : IsProduct(prods.items[i]))
        THEN <<"ValueError", "products element">>
    ELSE <<"", "">>

\* The counters a successful Category.__init__ leaves, with line 187 adding
\* 1 where the source adds len(products).
CountersAfterInitOnePerCategory(prods) ==
    [category_count |-> category_count + 1, product_count |-> product_count + 1]

\* The counters a successful Category.__init__ leaves.
CountersAfterInit(prods) ==
    [category_count |-> category_count + 1,
     product_count |-> product_count + Len(prods.items)]

\* Category(name, description, products)
CategoryInit(name, description, prods) ==
    LET chk == CategoryCheck(name, description, prods)
        args == <<name, description, prods>>
    IN /\ last.op = "idle"
       /\ IF chk[1] # ""
          THEN /\ last' = Raised("Category", args, chk[1], chk[2])
               /\ UNCHANGED <<categories, category_count, product_count>>
          ELSE /\ Len(products) + Len(categories) < MaxObjects
               /\ categories' = Append(categories,
                     [name |-> Strip(name.s), description |-> Strip(description.s),
                      products |-> ListCopy(prods).items,
                      list_id |-> ListCopy(prods).id, is_active |-> TRUE])
               /\ category_count' = CountersAfterInit(prods).category_count
               /\ product_count' = CountersAfterInit(prods).product_count
               /\ last' = Returned("Category", Len(categories) + 1, args, "object")
       /\ UNCHANGED <<products, lists, iterators, orders>>

\* The guard of remove_category left out: every call goes through.
IsRemovedNever(c) == FALSE

\* `not self._is_active`, the guard of remove_category.
IsRemoved(c) == ~categories[c].is_active

\* The category a successful remove_category leaves, with line 224 dropped.
RemovedCategoryKeepsProducts(c) == [categories[c] EXCEPT !.is_active = FALSE]

\* The category a successful remove_category leaves.
RemovedCategory(c) ==
    [categories[c] EXCEPT !.products = <<>>, !.list_id = 0, !.is_active = FALSE]

\* category.remove_category()
RemoveCategory(c) ==
    /\ last.op = "idle"
    /\ c \in 1..Len(categories)
    /\ IF IsRemoved(c)
       THEN /\ last' = [Raised("remove_category", <<>>, "ValueError", "already removed")
                           EXCEPT !.obj = c]
            /\ UNCHANGED <<categories, category_count, product_count>>
       ELSE /\ category_count' = category_count - 1
            /\ product_count' = product_count - Len(categories[c].products)
            /\ categories' = [categories EXCEPT ![c] = RemovedCategory(c)]
            /\ last' = Returned("remove_category", c, <<>>, "True")
    /\ UNCHANGED <<products, lists, iterators, orders>>

\* The try block of add_product without the test of line 243.
AddProductCheckNoDuplicate(c, p) ==
    IF ~IsProduct(p) THEN <<"TypeError", "not a Product">>
    ELSE IF products[p].quantity = 0 THEN <<"ZeroQuantityError", "zero quantity">>
    ELSE <<"", "">>

\* The exception add_product's try block raises; <<"", "">> when it appends.
AddProductCheck(c, p) ==
    IF ~IsProduct(p) THEN <<"TypeError", "not a Product">>
    ELSE IF \E i \in 1..Len(categories[c].products) : categories[c].products[i] = p
        THEN <<"ValueError", "duplicate">>
    ELSE IF products[p].quantity = 0 THEN <<"ZeroQuantityError", "zero quantity">>
    ELSE <<"", "">>

\* category.add_product(product): every exception of the try block is caught
\* and printed (msg), and the call returns None.
AddProduct(c, p) ==
    LET chk == AddProductCheck(c, p)
    IN /\ last.op = "idle"
       /\ c \in 1..Len(categories)
       /\ IF chk[1] # ""
          THEN /\ last' = Outcome("add_product", c, <<p>>, "None", "", chk[2])
               /\ UNCHANGED <<categories, product_count>>
          ELSE /\ categories' = [categories EXCEPT ![c].products = Append(@, p)]
               /\ product_count' = product_count + 1
               /\ last' = Outcome("add_product", c, <<p>>, "None", "", "added")
       /\ UNCHANGED <<products, category_count, lists, iterators, orders>>

\* Category.reset_counters()
ResetCounters ==
    /\ last.op = "idle"
    /\ category_count' = 0
    /\ product_count' = 0
    /\ last' = Returned("reset_counters", 0, <<>>, "None")
    /\ UNCHANGED <<products, categories, lists, iterators, orders>>

\* The caller has the result of its call and goes on to its next statement.
Proceed ==
    /\ last.op # "idle"
    /\ last' = Idle
    /\ UNCHANGED <<products, categories, category_count, product_count>>
    /\ UNCHANGED <<lists, iterators, orders>>

(***************************************************************************)
(* The state once the module is imported: no objects, both counters 0.     *)
(***************************************************************************)
Init ==
    /\ products = <<>>
    /\ categories = <<>>
    /\ category_count = 0
    /\ product_count = 0
    /\ last = Idle
    /\ lists = <<>>
    /\ iterators = <<>>
    /\ orders = <<>>

(***************************************************************************)
(* The catalog: products are built from a few argument tuples, categories  *)
(* from lists over the existing products.  A caller makes its next call    *)
(* once the last one is over.                                              *)
(***************************************************************************)
CatalogNames == {PyStr(<<"a", " ">>), PyStr(<<" ">>)}

CatalogQuantities == {PyInt(0), PyInt(1), PyFloat(1)}

\* The lists holding no product twice.
RECURSIVE DistinctLists(_)
DistinctLists(S) ==
    {<<>>} \cup UNION {{<<x>> \o t : t \in DistinctLists(S \ {x})} : x \in S}

\* The lists a caller passes: lists of distinct existing products, and the
\* lists holding one product twice.
CallerLists ==
    LET ids == 1..Len(products)
    IN DistinctLists(ids) \cup {<<p, p>> : p \in ids}

CatalogProductsArgs ==
    {PyList(l) : l \in CallerLists} \cup {NoList, PyList(<<NotAProduct>>)}

NewProductStep ==
    /\ last.op = "idle"
    /\ \E name \in CatalogNames, quantity \in CatalogQuantities :
          ProductInit(name, PyStr(<<"d">>), PyInt(1), quantity)

NewCategoryStep ==
    /\ last.op = "idle"
    /\ \E name \in CatalogNames, prods \in CatalogProductsArgs :
          CategoryInit(name, PyStr(<<"d">>), prods)

RemoveCategoryStep ==
    /\ last.op = "idle"
    /\ \E c \in 1..Len(categories) : RemoveCategory(c)

AddProductStep ==
    /\ last.op = "idle"
    /\ \E c \in 1..Len(categories), p \in (1..Len(products)) \cup {NotAProduct} :
          AddProduct(c, p)

NextCatalog ==
    \/ NewProductStep
    \/ NewCategoryStep
    \/ RemoveCategoryStep
    \/ AddProductStep
    \/ Proceed

\* Construction, add_product and remove_category only.
SpecCatalog == Init /\ [][NextCatalog]_vars

NextCatalogReset ==
    \/ NewProductStep
    \/ NewCategoryStep
    \/ RemoveCategoryStep
    \/ AddProductStep
    \/ ResetCounters
    \/ Proceed

\* The same with Category.reset_counters().
SpecCatalogReset == Init /\ [][NextCatalogReset]_vars

ActiveCategories == {c \in 1..Len(categories) : categories[c].is_active}

RECURSIVE SumLen(_, _)
SumLen(cats, S) ==
    IF S = {} THEN 0
    ELSE LET c == CHOOSE x \in S : TRUE
         IN Len(cats[c].products) + SumLen(cats, S \ {c})

(***************************************************************************)
(* Counters                                                                *)
(***************************************************************************)
\* C1: with construction, add_product and remove_category only,
\* product_count is the sum of len(products) over the active categories.
C1_ProductCountIsActiveSum ==
    product_count = SumLen(categories, ActiveCategories)

\* C2: with construction, add_product and remove_category only,
\* category_count is the number of categories whose is_active flag is true.
C2_CategoryCountIsActiveNumber ==
    category_count = Cardinality(ActiveCategories)

\* One category removed, one still active, the removal just done.
C2_Witness ==
    /\ last.op = "remove_category" /\ last.ret = "True"
    /\ Len(categories) = 2
    /\ Cardinality(ActiveCategories) = 1
    /\ category_count = 1

\* C3: with reset_counters as well, neither counter is ever negative.
C3_CountersNonNegative == category_count >= 0 /\ product_count >= 0

\* C4: a successful Category(name, description, list of N Products) adds
\* exactly 1 to category_count and exactly N to product_count, whatever the
\* counters were; a Product(...) call changes neither counter.
C4_ConstructionCounts ==
    [][/\ (last'.op = "Category" /\ last'.ret = "object") =>
            /\ category_count' = category_count + 1
            /\ product_count' = product_count + Len(last'.args[3].items)
       /\ last'.op = "Product" =>
            UNCHANGED <<category_count, product_count>>]_vars

\* A category just built from a list of two products, when the counters
\* stood at (1, 1) before the call.
C4_Witness ==
    /\ last.op = "Category" /\ last.ret = "object"
    /\ Len(last.args[3].items) = 2
    /\ category_count = 2
    /\ product_count = 3

\* C5: remove_category on an active category returns True, takes 1 from
\* category_count and the category's number of products from product_count,
\* empties the category and makes it inactive.
C5_RemoveActive ==
    [][(/\ last'.op = "remove_category"
        /\ categories[last'.obj].is_active) =>
            /\ last'.ret = "True"
            /\ category_count' = category_count - 1
            /\ product_count' =
                   product_count - Len(categories[last'.obj].products)
            /\ categories'[last'.obj].products = <<>>
            /\ ~categories'[last'.obj].is_active]_vars

\* A successful removal of a category that held two products: after a
\* reset, only such a removal takes the product counter to -2.
C5_Witness ==
    /\ last.op = "remove_category" /\ last.ret = "True"
    /\ ~categories[last.obj].is_active
    /\ categories[last.obj].products = <<>>
    /\ product_count = -2

\* C6: a category is active from its construction until a remove_category
\* call on it; remove_category on an inactive category raises the
\* "already removed" ValueError and changes neither the counters nor any
\* category.
C6_RemoveInactive ==
    [][/\ (last'.op = "Category" /\ last'.ret = "object") =>
            categories'[last'.obj].is_active
       /\ \A c \in 1..Len(categories) :
            (categories[c].is_active
             /\ ~(last'.op = "remove_category" /\ last'.obj = c)) =>
                categories'[c].is_active
       /\ (/\ last'.op = "remove_category"
           /\ ~categories[last'.obj].is_active) =>
            /\ last'.ret = "raise"
            /\ last'.exc = "ValueError"
            /\ last'.msg = "already removed"
            /\ UNCHANGED <<categories, category_count, product_count>>]_vars

\* A second removal refused while another category still holds products.
C6_Witness ==
    /\ last.op = "remove_category" /\ last.ret = "raise"
    /\ last.exc = "ValueError"
    /\ ~categories[last.obj].is_active
    /\ \E c \in ActiveCategories : categories[c].products # <<>>

(***************************************************************************)
(* Products alone: the constructor, the price setter and the factory.      *)
(***************************************************************************)
ProductNames == {PyStr(<<"a">>), PyStr(<<"b", " ">>), PyNone}

\* The prices offered to the constructor, the setter and the factory.
PriceValues == {-1, 0, 1, 2}

ProductPrices == {PyInt(n) : n \in PriceValues}

Quantities == {PyInt(0), PyInt(1), PyFloat(1)}

\* What the user types when input() asks.
Answers == {"Y", "n"}

\* The dicts handed to new_product: valid ones, one without its price and
\* one the constructor refuses.
FactoryData ==
    LET valid == {[name |-> nm, description |-> PyStr(<<"d">>),
                   price |-> PyInt(n), quantity |-> PyInt(1)] :
                     nm \in {PyStr(<<"a">>), PyStr(<<"b", " ">>)},
                     n \in PriceValues \ {-1}}
        d == [name |-> PyStr(<<"a">>), description |-> PyStr(<<"d">>),
              price |-> PyInt(1), quantity |-> PyInt(1)]
    IN valid \cup {[d EXCEPT !.price = Missing], [d EXCEPT !.quantity = PyInt(0)]}

FactoryLists == {PyList(l) : l \in DistinctLists(1..Len(products))} \cup {NoList}

ConstructStep ==
    /\ last.op = "idle"
    /\ \E name \in ProductNames, price \in ProductPrices, quantity \in Quantities :
          ProductInit(name, PyStr(<<"d">>), price, quantity)

SetPriceStep ==
    /\ last.op = "idle"
    /\ \E p \in 1..Len(products), new_price \in PriceValues :
          \E answer \in Typed(PriceSet(products[p], new_price, "").asked, Answers) :
              SetPrice(p, new_price, answer)

FactoryStep ==
    /\ last.op = "idle"
    /\ \E data \in FactoryData, plist \in FactoryLists :
          \E answer \in Typed(NewProductAsks(data, plist), Answers) :
              NewProduct(data, plist, answer)

NextProduct ==
    \/ ConstructStep
    \/ SetPriceStep
    \/ FactoryStep
    \/ Proceed

SpecProduct == Init /\ [][NextProduct]_vars

Max(a, b) == IF a < b THEN b ELSE a

\* The dict holds the four fields and the constructor accepts them.
ValidData(data) ==
    /\ \A f \in {"name", "description", "price", "quantity"} : data[f] # Missing
    /\ ProductCheck(data.name, data.description, data.price, data.quantity)[1] = ""

\* The positions of the list whose product bears the name the new product
\* gets.
Matches(data, plist) ==
    {i \in 1..Len(plist.items) :
        products[plist.items[i]].name = Strip(data.name.s)}

(***************************************************************************)
(* Price                                                                   *)
(***************************************************************************)
\* C7: a price setter call with 0 < new_price < current price consults
\* input(); the stored price becomes new_price on the answer "y" and stays
\* what it was on any other answer.
C7_ReductionNeedsConfirmation ==
    [][(/\ last'.op = "price.setter"
        /\ last'.args[1] > 0
        /\ last'.args[1] < products[last'.obj].price) =>
            /\ last'.asked
            /\ Lower(last'.answer) = "y" =>
                   products'[last'.obj].price = last'.args[1]
            /\ Lower(last'.answer) # "y" =>
                   products'[last'.obj].price = products[last'.obj].price]_vars

\* C8: a price setter call with new_price <= 0 returns normally and leaves
\* every field of the product (and every other product) as it was.
C8_NonPositivePriceRejected ==
    [][(last'.op = "price.setter" /\ last'.args[1] <= 0) =>
            /\ last'.ret = "None"
            /\ products' = products]_vars

\* The setter refused 0 on a product priced 2.
C8_Witness ==
    /\ last.op = "price.setter" /\ last.ret = "None"
    /\ last.args[1] = 0
    /\ last.msg = "rejected"
    /\ products[last.obj].price = 2

C10_MergeIntoFirstMatch ==
    [][(/\ last'.op = "new_product"
        /\ ValidData(last'.args[1])
        /\ last'.args[2].type = "list"
        /\ Matches(last'.args[1], last'.args[2]) # {}) =>
            LET data == last'.args[1]
                items == last'.args[2].items
                M == Matches(data, last'.args[2])
                first == CHOOSE i \in M : \A j \in M : i <= j
                e == items[first]
            IN /\ last'.ret = "object"
               /\ last'.obj = e
               /\ Len(products') = Len(products)
               /\ products'[e].quantity = products[e].quantity + data.quantity.n
               /\ products'[e].price = Max(products[e].price, data.price.n)
               /\ products'[e].name = products[e].name
               /\ products'[e].description = products[e].description
               /\ \A q \in 1..Len(products) : q # e => products'[q] = products[q]]_vars

\* A merge into product 2, first of the list <<2, 1>> whose products bear
\* the same name, that raised its price to 2 and its quantity to 2.
C10_Witness ==
    /\ last.op = "new_product" /\ last.ret = "object"
    /\ last.args[2].items = <<2, 1>>
    /\ products[1].name = products[2].name
    /\ last.obj = 2
    /\ last.args[1].price.n = 2
    /\ products[2].price = 2
    /\ products[2].quantity = 2
    /\ products[1].price < 2

(***************************************************************************)
(* add_product, over products whose public quantity attribute a caller has *)
(* assigned.                                                               *)
(***************************************************************************)
\* product.quantity = q: quantity is a plain instance attribute.
SetQuantity(p, q) ==
    /\ last.op = "idle"
    /\ p \in 1..Len(products)
    /\ products' = [products EXCEPT ![p].quantity = q]
    /\ last' = Returned("quantity.set", p, <<q>>, "None")
    /\ UNCHANGED <<categories, category_count, product_count>>
    /\ UNCHANGED <<lists, iterators, orders>>

\* The quantities a caller assigns.
AssignedQuantities == {0, 1}

SetQuantityStep ==
    /\ last.op = "idle"
    /\ \E p \in 1..Len(products), q \in AssignedQuantities : SetQuantity(p, q)

NextAddProduct ==
    \/ NewProductStep
    \/ NewCategoryStep
    \/ RemoveCategoryStep
    \/ AddProductStep
    \/ SetQuantityStep
    \/ Proceed

\* The catalog with quantity assignments.
SpecAddProduct == Init /\ [][NextAddProduct]_vars

MaxIterators == 2

\* iter(category): Category.__iter__ builds a CategoryIterator at index 0.
Iter(c) ==
    /\ last.op = "idle"
    /\ c \in 1..Len(categories)
    /\ Len(iterators) < MaxIterators
    /\ iterators' = Append(iterators, [category |-> c, index |-> 0])
    /\ last' = Returned("__iter__", Len(iterators) + 1, <<c>>, "object")
    /\ UNCHANGED <<products, categories, category_count, product_count>>
    /\ UNCHANGED <<lists, orders>>

\* __next__ going back to the start once the end is reached.
IteratorNextRestarts(it) ==
    LET prods == categories[it.category].products
    IN IF it.index < Len(prods)
       THEN [ret |-> "object", obj |-> prods[it.index + 1], exc |-> "",
             index |-> it.index + 1]
       ELSE [ret |-> "raise", obj |-> 0, exc |-> "StopIteration", index |-> 0]

\* The body of CategoryIterator.__next__ on iterator `it`: what the call
\* returns or raises, and the index it leaves.
IteratorNext(it) ==
    LET prods == categories[it.category].products
    IN IF it.index < Len(prods)
       THEN [ret |-> "object", obj |-> prods[it.index + 1], exc |-> "",
             index |-> it.index + 1]
       ELSE [ret |-> "raise", obj |-> 0, exc |-> "StopIteration",
             index |-> it.index]

\* next(iterator)
NextItem(i) ==
    LET r == IteratorNext(iterators[i])
    IN /\ last.op = "idle"
       /\ i \in 1..Len(iterators)
       /\ iterators' = [iterators EXCEPT ![i].index = r.index]
       /\ last' = Outcome("__next__", r.obj, <<i>>, r.ret, r.exc, "")
       /\ UNCHANGED <<products, categories, category_count, product_count>>
       /\ UNCHANGED <<lists, orders>>

IterStep ==
    /\ last.op = "idle"
    /\ \E c \in 1..Len(categories) : Iter(c)

NextItemStep ==
    /\ last.op = "idle"
    /\ \E i \in 1..Len(iterators) : NextItem(i)

\* The products to iterate over.
IterableProductStep ==
    /\ last.op = "idle"
    /\ ProductInit(PyStr(<<"a">>), PyStr(<<"d">>), PyInt(1), PyInt(1))

\* The categories to iterate over: of no, one or several products, or one
\* product twice.
IterableCategoryStep ==
    /\ last.op = "idle"
    /\ \E l \in CallerLists : CategoryInit(PyStr(<<"a">>), PyStr(<<"d">>), PyList(l))

NextIterator ==
    \/ IterableProductStep
    \/ IterableCategoryStep
    \/ IterStep
    \/ NextItemStep
    \/ Proceed

\* Categories are built and iterated; none is changed after its construction.
SpecIterator == Init /\ [][NextIterator]_vars

\* C12: an iterator over a category that holds P1..Pn and is not changed
\* starts before P1; the call made after k earlier calls returns P(k+1)
\* while k < n, and every call from the (n+1)-th on signals StopIteration
\* and leaves the iterator where it is, so it never restarts; for n = 0 the
\* first call already signals StopIteration.  Nothing but a next-call moves
\* an iterator.
C12_IteratorYieldsInOrderOnce ==
    [][/\ last'.op = "__iter__" =>
             /\ iterators'[last'.obj] = [category |-> last'.args[1], index |-> 0]
             /\ \A i \in 1..Len(iterators) : iterators'[i] = iterators[i]
       /\ last'.op = "__next__" =>
             LET i == last'.args[1]
                 k == iterators[i].index
                 P == categories[iterators[i].category].products
             IN /\ categories' = categories
                /\ k <= Len(P)
                /\ k < Len(P) =>
                      /\ last'.ret = "object"
                      /\ last'.obj = P[k + 1]
                      /\ iterators'[i].index = k + 1
                /\ k = Len(P) =>
                      /\ last'.ret = "raise"
                      /\ last'.exc = "StopIteration"
                      /\ iterators'[i].index = k
                /\ \A j \in 1..Len(iterators) :
                      j # i => iterators'[j] = iterators[j]
       /\ last'.op \notin {"__iter__", "__next__"} =>
             iterators' = iterators]_vars

\* An iterator over a category of two different products, both already
\* yielded, has just signalled the end.
C12_Witness ==
    /\ last.op = "__next__" /\ last.ret = "raise"
    /\ last.exc = "StopIteration"
    /\ iterators[last.args[1]].index = 2
    /\ Len(categories[iterators[last.args[1]].category].products) = 2
    /\ categories[iterators[last.args[1]].category].products[1] #
          categories[iterators[last.args[1]].category].products[2]

(***************************************************************************)
(* Order                                                                   *)
(***************************************************************************)
\* At most this many Order objects are constructed.
MaxOrders == 1

\* The order's price with the quantity left out of line 431.
OrderObjectUnitPrice(p, quantity) ==
    [product |-> p, quantity |-> quantity, total_price |-> products[p].price]

\* The instance a successful Order.__init__ leaves (lines 429-431).
OrderObject(p, quantity) ==
    [product |-> p, quantity |-> quantity,
     total_price |-> products[p].price * quantity]

\* Order(name, description, product, quantity)
OrderInit(p, quantity) ==
    LET args == <<p, quantity>>
    IN /\ last.op = "idle"
       /\ IF ~IsProduct(p)
          THEN /\ last' = Raised("Order", args, "TypeError", "not a Product")
               /\ UNCHANGED orders
          ELSE IF quantity <= 0
          THEN /\ last' = Raised("Order", args, "ValueError", "quantity")
               /\ UNCHANGED orders
          ELSE /\ Len(orders) < MaxOrders
               /\ orders' = Append(orders, OrderObject(p, quantity))
               /\ last' = Returned("Order", Len(orders) + 1, args, "object")
       /\ UNCHANGED <<products, categories, category_count, product_count>>
       /\ UNCHANGED <<lists, iterators>>

\* The quantities ordered.
OrderQuantities == {0, 2}

\* The products ordered, priced 1 or 2.
OrderableProductStep ==
    /\ last.op = "idle"
    /\ \E n \in {1, 2} :
          ProductInit(PyStr(<<"a">>), PyStr(<<"d">>), PyInt(n), PyInt(1))

OrderStep ==
    /\ last.op = "idle"
    /\ \E p \in (1..Len(products)) \cup {NotAProduct}, quantity \in OrderQuantities :
          OrderInit(p, quantity)

\* new_product with data of the ordered products' name, which merges into
\* the first product of the list.
OrderedMergeStep ==
    /\ last.op = "idle"
    /\ \E n \in {1, 2}, p \in 1..Len(products) :
          LET data == [name |-> PyStr(<<"a">>), description |-> PyStr(<<"d">>),
                       price |-> PyInt(n), quantity |-> PyInt(1)]
          IN \E answer \in Typed(NewProductAsks(data, PyList(<<p>>)), Answers) :
                NewProduct(data, PyList(<<p>>), answer)

NextOrder ==
    \/ OrderableProductStep
    \/ SetPriceStep
    \/ OrderedMergeStep
    \/ OrderStep
    \/ Proceed

\* Products, their price setter and the factory's merges, and orders.
SpecOrder == Init /\ [][NextOrder]_vars

\* C13: a constructed Order's total_price is the product's price at that
\* moment times the ordered quantity, and no later call (price setter,
\* new_product merge, or any other) changes the total_price of an existing
\* order.
C13_OrderTotalIsSnapshot ==
    [][/\ (last'.op = "Order" /\ last'.ret = "object") =>
             /\ Len(orders') = Len(orders) + 1
             /\ last'.obj = Len(orders')
             /\ orders'[last'.obj].total_price =
                   products[last'.args[1]].price * last'.args[2]
       /\ \A o \in 1..Len(orders) :
             orders'[o].total_price = orders[o].total_price]_vars

\* A price setter call has just raised to 2 the price of a product ordered
\* twice at price 1: the order's total is still 2, not 4.
C13_Witness ==
    /\ last.op = "price.setter" /\ last.args[1] = 2
    /\ Len(orders) = 1
    /\ orders[1].product = last.obj
    /\ orders[1].quantity = 2
    /\ orders[1].total_price = 2
    /\ products[last.obj].price = 2

(***************************************************************************)
(* load_data_from_json.  The file's content after json.load is a value of  *)
(* the shapes below; str(), float() and int() are the coercions of lines   *)
(* 342-345 and 355-356.                                                    *)
(***************************************************************************)
Digits == <<"0", "1", "2", "3", "4", "5", "6", "7", "8", "9">>

\* The characters of a decimal literal without sign.
IsDigits(t) == t # <<>> /\ \A i \in 1..Len(t) : \E d \in 1..10 : Digits[d] = t[i]

RECURSIVE DigitsValue(_)
DigitsValue(t) ==
    IF t = <<>> THEN 0
    ELSE 10 * DigitsValue(SubSeq(t, 1, Len(t) - 1))
         + (CHOOSE d \in 1..10 : Digits[d] = t[Len(t)]) - 1

\* The decimal literal of a natural number.
RECURSIVE DigitChars(_)
DigitChars(n) ==
    IF n < 10 THEN <<Digits[n + 1]>>
    ELSE DigitChars(n \div 10) \o <<Digits[(n % 10) + 1]>>

\* The literal of an integer.
IntChars(n) == IF n < 0 THEN <<"-">> \o DigitChars(-n) ELSE DigitChars(n)

\* str(v) of a decoded scalar: a str is itself, None is 'None', an int is
\* its literal and a float its literal with '.0'.
Str(v) ==
    IF IsStr(v) THEN v
    ELSE IF v.type = "NoneType" THEN PyStr(<<"N", "o", "n", "e">>)
    ELSE IF IsInt(v) THEN PyStr(IntChars(v.n))
    ELSE PyStr(IntChars(v.n) \o <<".", "0">>)

\* An unsigned integer literal: <<exception, value>>.
ParseDigits(t) ==
    IF IsDigits(t) THEN <<"", DigitsValue(t)>> ELSE <<"ValueError", 0>>

\* An integer literal with an optional minus sign.
ParseInt(t) ==
    IF t # <<>> /\ t[1] = "-"
    THEN <<ParseDigits(Tail(t))[1], -ParseDigits(Tail(t))[2]>>
    ELSE ParseDigits(t)

\* A float literal: an integer literal, or one followed by '.0'.
ParseFloat(t) ==
    IF Len(t) > 2 /\ SubSeq(t, Len(t) - 1, Len(t)) = <<".", "0">>
    THEN ParseInt(SubSeq(t, 1, Len(t) - 2))
    ELSE ParseInt(t)

\* int(d[key]): <<exception, number>>.  An absent key raises KeyError; a
\* str is parsed as an integer literal, surrounding whitespace allowed; a
\* float is truncated.
ToInt(v) ==
    IF v = Missing THEN <<"KeyError", 0>>
    ELSE IF IsNumber(v) THEN <<"", v.n>>
    ELSE IF IsStr(v) THEN ParseInt(Strip(v.s))
    ELSE <<"TypeError", 0>>

\* float(d[key]): <<exception, number>>.
ToFloat(v) ==
    IF v = Missing THEN <<"KeyError", 0>>
    ELSE IF IsNumber(v) THEN <<"", v.n>>
    ELSE IF IsStr(v) THEN ParseFloat(Strip(v.s))
    ELSE <<"TypeError", 0>>

\* str(d[key]): <<exception, str>>.
ToStr(v) ==
    IF v = Missing THEN <<"KeyError", PyNone>> ELSE <<"", Str(v)>>

\* The exception classes the handler of line 348 catches.
ProductHandlerCatches == {"ValueError", "TypeError", "KeyError"}

\* What leaves the try block of lines 339-349 when `exc` is raised in it.
ProductHandler(exc) ==
    IF exc \in ProductHandlerCatches THEN "ValueError" ELSE exc

\* Lines 341-346 once the four arguments are evaluated, left to right, each
\* an <<exception, value>> pair: the first exception of the arguments, or
\* else what Product(...) raises, or the Product it constructs.
LoadedProduct(name, description, price, quantity) ==
    IF name[1] # "" THEN [exc |-> name[1], obj |-> <<>>]
    ELSE IF description[1] # "" THEN [exc |-> description[1], obj |-> <<>>]
    ELSE IF price[1] # "" THEN [exc |-> price[1], obj |-> <<>>]
    ELSE IF quantity[1] # "" THEN [exc |-> quantity[1], obj |-> <<>>]
    ELSE IF ProductCheck(name[2], description[2],
                         PyFloat(price[2]), PyInt(quantity[2]))[1] # ""
    THEN [exc |-> ProductCheck(name[2], description[2],
                               PyFloat(price[2]), PyInt(quantity[2]))[1],
          obj |-> <<>>]
    ELSE [exc |-> "",
          obj |-> <<ProductObject(name[2], description[2],
                                  PyFloat(price[2]), PyInt(quantity[2]))>>]

\* One pass of the loop body of lines 339-349 on product_data: the exception
\* raised in the try block ("" for none) and the Product constructed.
\* Subscripting something that is no dict raises TypeError.
LoadProduct(pd) ==
    IF pd.type # "dict" THEN [exc |-> "TypeError", obj |-> <<>>]
    ELSE LoadedProduct(ToStr(pd.name), ToStr(pd.description),
                       ToFloat(pd.price), ToInt(pd.quantity))

RECURSIVE LoadProducts(_, _)

\* The loop of lines 338-349 after one pass gave r: the handler's exception
\* ends it, a Product is appended and the loop goes on.
AfterProduct(r, rest, objs) ==
    IF r.exc # "" THEN [exc |-> ProductHandler(r.exc), objs |-> <<>>]
    ELSE LoadProducts(rest, objs \o r.obj)

\* The loop of lines 338-349 over the products of one category entry, with
\* objs the Products appended so far: the first exception, or the Products
\* in order.
LoadProducts(pds, objs) ==
    IF pds = <<>> THEN [exc |-> "", objs |-> objs]
    ELSE AfterProduct(LoadProduct(Head(pds)), Tail(pds), objs)

\* Lines 338-362 once the products loop gave r: its exception, or else what
\* Category(...) raises on the coerced name and description, or the
\* Products with the name and description of the Category constructed.
\* Every element of the list built at lines 335-347 is a Product, so the
\* test of line 176 passes as it does on the empty list.
LoadedCategory(r, name, description) ==
    IF r.exc # ""
    THEN [exc |-> r.exc, objs |-> <<>>, name |-> <<>>, description |-> <<>>]
    ELSE IF CategoryCheck(name, description, PyList(<<>>))[1] # ""
    THEN [exc |-> CategoryCheck(name, description, PyList(<<>>))[1],
          objs |-> <<>>, name |-> <<>>, description |-> <<>>]
    ELSE [exc |-> "", objs |-> r.objs,
          name |-> Strip(name.s), description |-> Strip(description.s)]

\* One pass of the loop body of lines 322-362 on category_data.
LoadCategory(cd) ==
    IF \/ cd.type # "dict"
       \/ cd.name = Missing
       \/ cd.description = Missing
       \/ cd.products.type = "missing"
       \/ cd.products.type # "list"
    THEN [exc |-> "ValueError", objs |-> <<>>, name |-> <<>>, description |-> <<>>]
    ELSE LoadedCategory(LoadProducts(cd.products.items, <<>>),
                        Str(cd.name), Str(cd.description))

RECURSIVE LoadCategories(_, _)

\* The loop of lines 321-362 after one pass gave r: an exception ends it;
\* a Category constructed has counted itself and its products (lines
\* 186-187).  New objects take the next free indices of the heaps.
AfterCategory(r, rest, acc) ==
    IF r.exc # "" THEN [acc EXCEPT !.exc = r.exc]
    ELSE LoadCategories(rest,
            [acc EXCEPT
               !.prods = @ \o r.objs,
               !.cats = Append(@,
                  [name |-> r.name, description |-> r.description,
                   products |-> [i \in 1..Len(r.objs) |->
                                    Len(products) + Len(acc.prods) + i],
                   list_id |-> 0, is_active |-> TRUE]),
               !.category_count = @ + 1,
               !.product_count = @ + Len(r.objs)])

\* The loop of lines 321-362 from the state acc on: it stops at the first
\* entry that raises.
LoadCategories(entries, acc) ==
    IF entries = <<>> THEN acc
    ELSE AfterCategory(LoadCategory(Head(entries)), Tail(entries), acc)

\* The state the try block starts from: nothing constructed, the class
\* counters as they are.
LoadStart ==
    [exc |-> "", prods |-> <<>>, cats |-> <<>>,
     category_count |-> category_count, product_count |-> product_count]

\* The try block of lines 306-364 on what the path holds: the exception
\* raised in it ("" when it returns), the objects constructed and the
\* counters as it leaves them.
LoadBody(file) ==
    IF file.status = "missing" THEN [LoadStart EXCEPT !.exc = "FileNotFoundError"]
    ELSE IF file.status = "unreadable" THEN [LoadStart EXCEPT !.exc = "OSError"]
    ELSE IF file.status = "undecodable"
        THEN [LoadStart EXCEPT !.exc = "UnicodeDecodeError"]
    ELSE IF file.status = "malformed"
        THEN [LoadStart EXCEPT !.exc = "JSONDecodeError"]
    ELSE IF file.data.type # "list" THEN [LoadStart EXCEPT !.exc = "ValueError"]
    ELSE LoadCategories(file.data.items, LoadStart)

\* The handlers of lines 366-369 alone, without the `except Exception` of
\* line 370.
OuterHandlerWithoutCatchAll(exc) ==
    IF exc \in {"FileNotFoundError", "JSONDecodeError"} THEN "ValueError" ELSE exc

\* What the handlers of lines 366-371 raise for an exception of the try
\* block: each of the three raises ValueError, and the last one catches
\* every Exception.
OuterHandler(exc) == "ValueError"

\* The class counters after a load that is undone when it fails.
LoadedCountersRolledBack(r) ==
    IF r.exc # ""
    THEN [category_count |-> category_count, product_count |-> product_count]
    ELSE [category_count |-> r.category_count, product_count |-> r.product_count]

\* The class counters after the try block: no handler takes back what the
\* Category constructions of lines 353-359 have added.
LoadedCounters(r) ==
    [category_count |-> r.category_count, product_count |-> r.product_count]

\* The counters are followed up to this value.
MaxCount == 4

\* The end of load_data_from_json once the try block gave r: the counters
\* keep what the block made of them; an exception goes through the
\* handlers, and the objects of the failed load are dropped with its local
\* lists; otherwise the list of the new categories is returned.
Loaded(args, r) ==
    /\ LoadedCounters(r).category_count <= MaxCount
    /\ LoadedCounters(r).product_count <= MaxCount
    /\ category_count' = LoadedCounters(r).category_count
    /\ product_count' = LoadedCounters(r).product_count
    /\ IF r.exc # ""
       THEN /\ last' = Raised("load_data_from_json", args, OuterHandler(r.exc), r.exc)
            /\ UNCHANGED <<products, categories>>
       ELSE /\ Len(products) + Len(r.prods) <= MaxProducts
            /\ Len(products) + Len(r.prods)
                 + Len(categories) + Len(r.cats) <= MaxObjects
            /\ products' = products \o r.prods
            /\ categories' = categories \o r.cats
            /\ last' = [Returned("load_data_from_json", 0, args, "value")
                           EXCEPT !.value =
                              [i \in 1..Len(r.cats) |-> Len(categories) + i]]

\* load_data_from_json(filename), with `file` what the path holds.
LoadDataFromJson(filename, file) ==
    /\ last.op = "idle"
    /\ IF ~IsStr(filename) \/ Strip(filename.s) = <<>>
       THEN /\ last' = Raised("load_data_from_json", <<filename, file>>,
                              "ValueError", "filename")
            /\ UNCHANGED <<products, categories, category_count, product_count>>
       ELSE Loaded(<<filename, file>>, LoadBody(file))
    /\ UNCHANGED <<lists, iterators, orders>>

\* The shapes of a decoded file.
ProductEntry(name, description, price, quantity) ==
    [type |-> "dict", name |-> name, description |-> description,
     price |-> price, quantity |-> quantity]

\* An element of a products array that is no object.
NoProductEntry == [ProductEntry(Missing, Missing, Missing, Missing) EXCEPT !.type = "other"]

JsonList(items) == [type |-> "list", items |-> items]

\* A value where an array is expected, and a key that is absent.
NoJsonList == [type |-> "other", items |-> <<>>]
MissingList == [type |-> "missing", items |-> <<>>]

CategoryEntry(name, description, prods) ==
    [type |-> "dict", name |-> name, description |-> description, products |-> prods]

NoCategoryEntry == [CategoryEntry(Missing, Missing, MissingList) EXCEPT !.type = "other"]

File(status, data) == [status |-> status, data |-> data]

\* The product objects of a file: GoodProduct as Product takes it,
\* CoercedProduct acceptable only after the coercions, the others defective.
GoodProduct == ProductEntry(PyStr(<<"a">>), PyStr(<<"d">>), PyInt(1), PyInt(1))

CoercedProduct == ProductEntry(PyNone, PyInt(2), PyStr(<<" ", "2", ".", "0">>), PyFloat(1))

DefectiveProducts ==
    {NoProductEntry,
     [GoodProduct EXCEPT !.price = Missing],
     [GoodProduct EXCEPT !.price = PyStr(<<"x">>)],
     [GoodProduct EXCEPT !.quantity = PyNone],
     [GoodProduct EXCEPT !.quantity = PyStr(<<"1", ".", "0">>)],
     [GoodProduct EXCEPT !.quantity = PyInt(0)],
     [GoodProduct EXCEPT !.price = PyInt(-1)],
     [GoodProduct EXCEPT !.price = PyInt(-1), !.quantity = PyInt(0)],
     [GoodProduct EXCEPT !.name = PyStr(<<" ">>)]}

\* The products arrays: sound ones of 0..2 products, and ones with a
\* defective product first or after a sound one.
GoodProductLists ==
    {<<>>, <<GoodProduct>>, <<CoercedProduct>>, <<GoodProduct, CoercedProduct>>}

DefectiveProductLists ==
    {<<d>> : d \in DefectiveProducts} \cup {<<GoodProduct, d>> : d \in DefectiveProducts}

GoodCategories ==
    {CategoryEntry(PyStr(<<"a", " ">>), PyStr(<<"d">>), JsonList(l)) :
        l \in GoodProductLists}

DefectiveCategories ==
    LET c == CategoryEntry(PyStr(<<"a">>), PyStr(<<"d">>), JsonList(<<GoodProduct>>))
    IN {NoCategoryEntry,
        [c EXCEPT !.name = Missing],
        [c EXCEPT !.products = MissingList],
        [c EXCEPT !.products = NoJsonList],
        [c EXCEPT !.name = PyStr(<<" ">>)],
        [c EXCEPT !.description = PyStr(<<>>)]}
       \cup {[c EXCEPT !.products = JsonList(l)] : l \in DefectiveProductLists}

\* What a path can hold: nothing, something unreadable, bytes that are not
\* UTF-8, text that is not JSON, JSON that is no array, or an array of up to
\* two category entries of which the last may be defective.
LoaderFiles ==
    {File(st, NoJsonList) : st \in {"missing", "unreadable", "undecodable", "malformed"}}
    \cup {File("ok", NoJsonList), File("ok", JsonList(<<>>))}
    \cup {File("ok", JsonList(<<c>>)) : c \in GoodCategories \cup DefectiveCategories}
    \cup {File("ok", JsonList(<<g, c>>)) :
             g \in GoodCategories, c \in GoodCategories \cup DefectiveCategories}

\* The calls: a usable filename with each of the files, and a filename
\* that is blank or no str.
LoaderCalls ==
    {<<PyStr(<<"f">>), file>> : file \in LoaderFiles}
    \cup {<<filename, File("missing", NoJsonList)>> :
              filename \in {PyStr(<<" ">>), PyNone}}

LoadStep ==
    /\ last.op = "idle"
    /\ \E call \in LoaderCalls : LoadDataFromJson(call[1], call[2])

NextLoader ==
    \/ LoadStep
    \/ Proceed

\* One load after another.
SpecLoader == Init /\ [][NextLoader]_vars

\* A product object of the file that the loader cannot turn into a Product:
\* no object, a field absent, a price or quantity that float() / int()
\* refuse, or values Product refuses (blank name, negative price,
\* quantity <= 0).
DefectiveProductData(pd) ==
    \/ pd.type # "dict"
    \/ Missing \in {pd.name, pd.description, pd.price, pd.quantity}
    \/ ToFloat(pd.price)[1] # ""
    \/ ToInt(pd.quantity)[1] # ""
    \/ Strip(Str(pd.name).s) = <<>>
    \/ ToFloat(pd.price)[2] < 0
    \/ ToInt(pd.quantity)[2] <= 0

\* A category entry of the file that is defective: no mapping, a field
\* absent, products no list, a defective product, or a name or description
\* that Category refuses.
DefectiveCategoryData(cd) ==
    \/ cd.type # "dict"
    \/ Missing \in {cd.name, cd.description}
    \/ cd.products.type # "list"
    \/ \E i \in 1..Len(cd.products.items) : DefectiveProductData(cd.products.items[i])
    \/ Strip(Str(cd.name).s) = <<>>
    \/ Strip(Str(cd.description).s) = <<>>

\* The positions of the defective entries of a decoded array.
DefectiveEntries(data) ==
    {k \in 1..Len(data.items) : DefectiveCategoryData(data.items[k])}

\* A call that the documentation says fails.
DefectiveCall(filename, file) ==
    \/ ~IsStr(filename)
    \/ Strip(filename.s) = <<>>
    \/ file.status # "ok"
    \/ file.data.type # "list"
    \/ DefectiveEntries(file.data) # {}

(***************************************************************************)
(* Loading                                                                 *)
(***************************************************************************)
\* C14: every load_data_from_json call that fails raises ValueError and no
\* other exception class: with an empty or non-str filename, a missing
\* file, an I/O or decoding error, malformed JSON, a top level that is no
\* list, or a defective category or product entry (ZeroQuantityError for a
\* quantity <= 0 included) the call fails, and with ValueError.
C14_LoadFailsWithValueErrorOnly ==
    [][last'.op = "load_data_from_json" =>
          /\ last'.ret = "raise" => last'.exc = "ValueError"
          /\ DefectiveCall(last'.args[1], last'.args[2]) => last'.ret = "raise"
          /\ last'.ret \in {"raise", "value"}]_vars

\* A load stopped by the ZeroQuantityError of a product with quantity 0,
\* which reached the caller as ValueError.
C14_Witness ==
    /\ last.op = "load_data_from_json" /\ last.ret = "raise"
    /\ last.exc = "ValueError"
    /\ last.msg = "ZeroQuantityError"

RECURSIVE ProductsBefore(_, _)
\* The number of product objects in the first k entries of the array.
ProductsBefore(items, k) ==
    IF k = 0 THEN 0
    ELSE Len(items[k].products.items) + ProductsBefore(items, k - 1)

\* C19: load_data_from_json takes the category entries in document order and
\* stops at the first defective one, the k-th: it raises, returns no
\* category list, and leaves category_count increased by k-1 and
\* product_count by the number of products of the k-1 entries before it;
\* the defective entry adds nothing.  A load without a defective entry
\* counts and returns all its categories.
C19_FailedLoadKeepsCounts ==
    [][(/\ last'.op = "load_data_from_json"
        /\ ~(~IsStr(last'.args[1]) \/ Strip(last'.args[1].s) = <<>>)
        /\ last'.args[2].status = "ok"
        /\ last'.args[2].data.type = "list") =>
          LET data == last'.args[2].data
              D == DefectiveEntries(data)
              k == IF D = {} THEN Len(data.items) + 1
                   ELSE CHOOSE i \in D : \A j \in D : i <= j
          IN /\ category_count' = category_count + (k - 1)
             /\ product_count' = product_count + ProductsBefore(data.items, k - 1)
             /\ D # {} =>
                   /\ last'.ret = "raise"
                   /\ UNCHANGED <<products, categories>>
             /\ D = {} =>
                   /\ last'.ret = "value"
                   /\ Len(last'.value) = Len(data.items)
                   /\ Len(categories') = Len(categories) + Len(data.items)]_vars

\* A load has failed on the second of two entries, after a first entry of
\* two products: the counters stand at 1 and 2 while no category exists.
C19_Witness ==
    /\ last.op = "load_data_from_json" /\ last.ret = "raise"
    /\ Len(last.args[2].data.items) = 2
    /\ Len(last.args[2].data.items[1].products.items) = 2
    /\ categories = <<>>
    /\ category_count = 1
    /\ product_count = 2

(***************************************************************************)
(* The caller's lists: a caller builds a list, constructs categories from  *)
(* it and goes on changing it.                                             *)
(***************************************************************************)
\* At most this many list objects are built by callers.
MaxLists == 1

\* lst = [p, q, ...]
NewList(items) ==
    /\ last.op = "idle"
    /\ Len(lists) < MaxLists
    /\ lists' = Append(lists, items)
    /\ last' = Returned("list", Len(lists) + 1, <<items>>, "object")
    /\ UNCHANGED <<products, categories, category_count, product_count>>
    /\ UNCHANGED <<iterators, orders>>

\* The items of a list after lst.append(p), lst.pop() or lst.clear().
ListAfter(items, method, p) ==
    IF method = "append" THEN Append(items, p)
    ELSE IF method = "pop" THEN SubSeq(items, 1, Len(items) - 1)
    ELSE <<>>

\* lst.append(p), lst.pop() or lst.clear() on the caller's list l: the list
\* object changes, and with it what every reference to that same object
\* shows.
ListChange(l, method, p) ==
    /\ last.op = "idle"
    /\ l \in 1..Len(lists)
    /\ method = "append" => Len(lists[l]) < MaxProducts
    /\ method = "pop" => lists[l] # <<>>
    /\ lists' = [lists EXCEPT ![l] = ListAfter(lists[l], method, p)]
    /\ categories' =
          [c \in 1..Len(categories) |->
              IF categories[c].list_id = l
              THEN [categories[c] EXCEPT !.products = ListAfter(lists[l], method, p)]
              ELSE categories[c]]
    /\ last' = Returned(method, l, <<p>>, "None")
    /\ UNCHANGED <<products, category_count, product_count, iterators, orders>>

NewListStep ==
    /\ last.op = "idle"
    /\ \E items \in DistinctLists(1..Len(products)) : NewList(items)

\* Category(name, description, lst) on a list the caller keeps.
CategoryOfListStep ==
    /\ last.op = "idle"
    /\ \E l \in 1..Len(lists) :
          CategoryInit(PyStr(<<"a">>), PyStr(<<"d">>), ListObject(l))

ListChangeStep ==
    /\ last.op = "idle"
    /\ \E l \in 1..Len(lists), method \in {"append", "pop", "clear"},
          p \in 1..Len(products) :
          /\ method = "append" => p \notin Range(lists[l])
          /\ ListChange(l, method, p)

NextLists ==
    \/ IterableProductStep
    \/ NewListStep
    \/ CategoryOfListStep
    \/ ListChangeStep
    \/ Proceed

SpecLists == Init /\ [][NextLists]_vars

(***************************************************************************)
(* Ownership of the product list                                           *)
(***************************************************************************)
\* C15: a Category constructed from the caller's list holds the items the
\* list had at that moment, and an append to, a removal from or a clear of
\* the caller's list afterwards changes no category's products and neither
\* counter.
C15_CategoryOwnsCopy ==
    [][/\ (last'.op = "Category" /\ last'.ret = "object") =>
             categories'[last'.obj].products = last'.args[3].items
       /\ last'.op \in {"append", "pop", "clear"} =>
             /\ categories' = categories
             /\ category_count' = category_count
             /\ product_count' = product_count]_vars

\* The caller has cleared the list from which a category of two products
\* was built; the category still holds both and the counters still count
\* them.
C15_Witness ==
    /\ last.op = "clear"
    /\ lists = <<<<>>>>
    /\ \E c \in 1..Len(categories) :
          /\ categories[c].is_active
          /\ Len(categories[c].products) = 2
    /\ product_count = 2

(***************************************************************************)
(* middle_price.  A float is held as the fraction it stands for, in lowest *)
(* terms: 0.0 is 0/1.                                                      *)
(***************************************************************************)
RECURSIVE GCD(_, _)
GCD(a, b) == IF b = 0 THEN a ELSE GCD(b, a % b)

\* total / n of a total >= 0 and an n > 0.
Quotient(total, n) ==
    [num |-> total \div GCD(total, n), den |-> n \div GCD(total, n)]

\* 0.0
FloatZero == [num |-> 0, den |-> 1]

\* sum(product.price for product in self._products)
RECURSIVE SumPrices(_)
SumPrices(items) ==
    IF items = <<>> THEN 0
    ELSE products[Head(items)].price + SumPrices(Tail(items))

\* middle_price without its except clause.
MiddlePriceUnhandled(items) ==
    IF Len(items) = 0
    THEN [ret |-> "raise", exc |-> "ZeroDivisionError", value |-> 0]
    ELSE [ret |-> "value", exc |-> "", value |-> Quotient(SumPrices(items), Len(items))]

\* The body of middle_price on the items of self._products: the division by
\* len raises ZeroDivisionError on no items, and the handler returns 0.0.
MiddlePriceOf(items) ==
    IF Len(items) = 0
    THEN [ret |-> "value", exc |-> "", value |-> FloatZero]
    ELSE [ret |-> "value", exc |-> "", value |-> Quotient(SumPrices(items), Len(items))]

\* category.middle_price()
MiddlePrice(c) ==
    /\ last.op = "idle"
    /\ c \in 1..Len(categories)
    /\ last' = [Outcome("middle_price", c, <<>>,
                        MiddlePriceOf(categories[c].products).ret,
                        MiddlePriceOf(categories[c].products).exc, "")
                   EXCEPT !.value = MiddlePriceOf(categories[c].products).value]
    /\ UNCHANGED <<products, categories, category_count, product_count>>
    /\ UNCHANGED <<lists, iterators, orders>>

MiddlePriceStep ==
    /\ last.op = "idle"
    /\ \E c \in 1..Len(categories) : MiddlePrice(c)

NextMiddlePrice ==
    \/ OrderableProductStep
    \/ IterableCategoryStep
    \/ RemoveCategoryStep
    \/ MiddlePriceStep
    \/ Proceed

\* Categories of products priced 1 or 2, their removal, and middle_price.
SpecMiddlePrice == Init /\ [][NextMiddlePrice]_vars

\* The prices of the first n products of a list, added up.
RECURSIVE PriceTotal(_, _)
PriceTotal(P, n) ==
    IF n = 0 THEN 0 ELSE PriceTotal(P, n - 1) + products[P[n]].price

\* C16: middle_price on a category without products (constructed empty or
\* emptied by remove_category) returns exactly 0.0 and raises nothing; on a
\* category of n > 0 products it returns the sum of their prices divided by
\* n.  The call changes nothing.
C16_MiddlePrice ==
    [][last'.op = "middle_price" =>
          LET P == categories[last'.obj].products
          IN /\ last'.ret = "value"
             /\ last'.exc = ""
             /\ P = <<>> => last'.value = FloatZero
             /\ P # <<>> =>
                   /\ last'.value.den > 0
                   /\ last'.value.num * Len(P) =
                         PriceTotal(P, Len(P)) * last'.value.den
             /\ UNCHANGED <<products, categories, category_count, product_count>>]_vars

\* middle_price has returned 0.0 for a category that was built with a
\* product and then emptied by remove_category.
C16_Witness ==
    /\ last.op = "middle_price" /\ last.ret = "value"
    /\ last.value = FloatZero
    /\ ~categories[last.obj].is_active
    /\ categories[last.obj].products = <<>>
    /\ product_count = 0
    /\ Len(products) > 0

(***************************************************************************)
(* Smartphone, LawnGrass and Product.__add__                               *)
(***************************************************************************)
\* The attributes the subclasses add after super().__init__.
OwnAttrs(cls) ==
    IF cls = "Smartphone" THEN {"efficiency", "model", "memory", "color"}
    ELSE {"country", "germination_period", "color"}

\* Smartphone(...) or LawnGrass(...): Product.__init__ on the first four
\* arguments, then the subclass's own attributes, which are not checked.
VariantInit(cls, name, description, price, quantity) ==
    /\ last.op = "idle"
    /\ IF ProductCheck(name, description, price, quantity)[1] # ""
       THEN /\ last' = Raised(cls, <<name, description, price, quantity>>,
                              ProductCheck(name, description, price, quantity)[1],
                              ProductCheck(name, description, price, quantity)[2])
            /\ UNCHANGED products
       ELSE /\ Len(products) < MaxProducts
            /\ Len(products) + Len(categories) < MaxObjects
            /\ products' = Append(products,
                  [ProductObject(name, description, price, quantity)
                      EXCEPT !.cls = cls, !.attrs = @ \cup OwnAttrs(cls)])
            /\ last' = Returned(cls, Len(products) + 1,
                                <<name, description, price, quantity>>, "object")
    /\ UNCHANGED <<categories, category_count, product_count>>
    /\ UNCHANGED <<lists, iterators, orders>>

\* __add__ with isinstance(other, Product) where line 86 compares the types.
AddOfAnyProduct(a, b) ==
    IF ~IsProduct(b)
    THEN [ret |-> "raise", exc |-> "TypeError", value |-> 0]
    ELSE [ret |-> "value", exc |-> "",
          value |-> products[a].price * products[a].quantity
                    + products[b].price * products[b].quantity]

\* The body of Product.__add__ on self = a and other = b.
AddOf(a, b) ==
    IF ~IsProduct(b) \/ products[a].cls # products[b].cls
    THEN [ret |-> "raise", exc |-> "TypeError", value |-> 0]
    ELSE [ret |-> "value", exc |-> "",
          value |-> products[a].price * products[a].quantity
                    + products[b].price * products[b].quantity]

\* a + b
ProductAdd(a, b) ==
    /\ last.op = "idle"
    /\ a \in 1..Len(products)
    /\ last' = [Outcome("__add__", a, <<b>>, AddOf(a, b).ret, AddOf(a, b).exc, "")
                   EXCEPT !.value = AddOf(a, b).value]
    /\ UNCHANGED <<products, categories, category_count, product_count>>
    /\ UNCHANGED <<lists, iterators, orders>>

\* The prices and quantities of the products added.
AddendValues == {1, 2}

VariantStep ==
    /\ last.op = "idle"
    /\ \E cls \in {"Product", "Smartphone", "LawnGrass"},
          price \in AddendValues, quantity \in AddendValues :
          IF cls = "Product"
          THEN ProductInit(PyStr(<<"a">>), PyStr(<<"d">>), PyInt(price), PyInt(quantity))
          ELSE VariantInit(cls, PyStr(<<"a">>), PyStr(<<"d">>),
                           PyInt(price), PyInt(quantity))

ProductAddStep ==
    /\ last.op = "idle"
    /\ \E a \in 1..Len(products), b \in (1..Len(products)) \cup {NotAProduct} :
          ProductAdd(a, b)

NextAdd ==
    \/ VariantStep
    \/ ProductAddStep
    \/ Proceed

\* Products of the three classes and their sums.
SpecAdd == Init /\ [][NextAdd]_vars

(***************************************************************************)
(* Addition                                                                *)
(***************************************************************************)
\* C17: a + b of two products of the same class (Product, Smartphone or
\* LawnGrass) is price_a * quantity_a + price_b * quantity_b, which is also
\* what b + a gives; when the classes differ (Product + Smartphone and
\* Smartphone + LawnGrass included) it raises TypeError; neither operand
\* is changed.
C17_AddSameVariantOnly ==
    [][(last'.op = "__add__" /\ last'.args[1] \in 1..Len(products)) =>
          LET a == last'.obj
              b == last'.args[1]
          IN /\ products[a].cls = products[b].cls =>
                   /\ last'.ret = "value"
                   /\ last'.value = products[a].price * products[a].quantity
                                    + products[b].price * products[b].quantity
                   /\ last'.value = AddOf(b, a).value
             /\ products[a].cls # products[b].cls =>
                   /\ last'.ret = "raise"
                   /\ last'.exc = "TypeError"
             /\ products' = products]_vars

\* A Product plus a Smartphone has raised TypeError.
C17_Witness ==
    /\ last.op = "__add__" /\ last.ret = "raise"
    /\ last.exc = "TypeError"
    /\ last.args[1] \in 1..Len(products)
    /\ products[last.obj].cls = "Product"
    /\ products[last.args[1]].cls = "Smartphone"

(***************************************************************************)
(* The constructors on arguments of every kind.                            *)
(***************************************************************************)
\* Names and descriptions: a usable one, a blank or empty one, and None.
ArgNames == {PyStr(<<"a">>), PyStr(<<" ">>), PyNone}

ArgDescriptions == {PyStr(<<"d">>), PyStr(<<>>), PyNone}

\* Prices: negative, zero, positive, and a str.
ArgPrices == {PyInt(-1), PyInt(0), PyFloat(1), PyStr(<<"1">>)}

\* Quantities: negative, zero, positive, and a float.
ArgQuantities == {PyInt(-1), PyInt(0), PyInt(1), PyFloat(1)}

ProductArgsStep ==
    /\ last.op = "idle"
    /\ \E name \in ArgNames, description \in ArgDescriptions,
          price \in ArgPrices, quantity \in ArgQuantities :
          ProductInit(name, description, price, quantity)

CategoryArgsStep ==
    /\ last.op = "idle"
    /\ \E name \in ArgNames, description \in ArgDescriptions,
          prods \in CatalogProductsArgs :
          CategoryInit(name, description, prods)

NextProductArgs ==
    \/ ProductArgsStep
    \/ Proceed

\* Product(...) alone.
SpecProductArgs == Init /\ [][NextProductArgs]_vars

NextCategoryArgs ==
    \/ IterableProductStep
    \/ CategoryArgsStep
    \/ Proceed

\* Category(...) over lists of sound products.
SpecCategoryArgs == Init /\ [][NextCategoryArgs]_vars

(***************************************************************************)
(* Validation                                                              *)
(***************************************************************************)
\* C18: Product(...) checks name, description, the type of price, the type
\* of quantity, price >= 0 and quantity > 0 in this order and reports the
\* first check that fails: ZeroQuantityError exactly when the five earlier
\* checks pass and quantity <= 0 (so a negative price with quantity <= 0
\* gives ValueError), ValueError for every other failure, and an object
\* when all pass, price 0 included.
C18_ProductChecksInOrder ==
    [][last'.op = "Product" =>
          LET name == last'.args[1]
              description == last'.args[2]
              price == last'.args[3]
              quantity == last'.args[4]
              nameOk == IsStr(name) /\ Strip(name.s) # <<>>
              earlierOk == /\ nameOk
                           /\ IsStr(description)
                           /\ IsNumber(price)
                           /\ IsInt(quantity)
                           /\ price.n >= 0
              first == IF ~nameOk THEN "name"
                       ELSE IF ~IsStr(description) THEN "description"
                       ELSE IF ~IsNumber(price) THEN "price type"
                       ELSE IF ~IsInt(quantity) THEN "quantity type"
                       ELSE IF ~(price.n >= 0) THEN "negative price"
                       ELSE IF ~(quantity.n > 0) THEN "zero quantity"
                       ELSE ""
          IN /\ last'.msg = first
             /\ (last'.exc = "ZeroQuantityError") <=> (earlierOk /\ quantity.n <= 0)
             /\ (first # "" /\ ~(earlierOk /\ quantity.n <= 0)) =>
                   (last'.ret = "raise" /\ last'.exc = "ValueError")
             /\ first = "" =>
                   /\ last'.ret = "object"
                   /\ products'[last'.obj].price = price.n
                   /\ products'[last'.obj].quantity = quantity.n
             /\ first # "" => (last'.ret = "raise" /\ products' = products)]_vars

\* Product(...) with price -1 and quantity 0 has raised the ValueError of
\* the price check, not ZeroQuantityError.
C18_Witness ==
    /\ last.op = "Product" /\ last.ret = "raise"
    /\ last.exc = "ValueError"
    /\ last.msg = "negative price"
    /\ last.args[3].n = -1
    /\ last.args[4].n = 0

\* C20: Category(...) with a name or description that is not a non-empty
\* str, with products that is no list, or with a list element that is not a
\* Product raises ValueError, and a Category(...) call that raises leaves
\* category_count, product_count and the categories as they were.
C20_FailedCategoryLeavesCounters ==
    [][last'.op = "Category" =>
          LET name == last'.args[1]
              description == last'.args[2]
              prods == last'.args[3]
              invalid == \/ ~IsStr(name) \/ name.s = <<>>
                         \/ ~IsStr(description) \/ description.s = <<>>
                         \/ prods.type # "list"
                         \/ \E i \in 1..Len(prods.items) :
                               prods.items[i] \notin 1..Len(products)
          IN /\ invalid => (last'.ret = "raise" /\ last'.exc = "ValueError")
             /\ last'.ret = "raise" =>
                   /\ category_count' = category_count
                   /\ product_count' = product_count
                   /\ categories' = categories]_vars

\* Category(...) on a list holding something that is no Product has raised
\* ValueError while a category of two products exists: the counters still
\* stand at 1 and 2.
C20_Witness ==
    /\ last.op = "Category" /\ last.ret = "raise"
    /\ last.exc = "ValueError"
    /\ last.msg = "products element"
    /\ Len(categories) = 1
    /\ category_count = 1
    /\ product_count = 2

====
